---- MODULE Spec2Model ----
(***************************************************************************)
(* file-lister / file-comparer (RonNiles/file-lister).                     *)
(*                                                                         *)
(* A DirLevel is a std::map<std::string, EntryInfo>; here it is a function *)
(* from names to EntryInfo records.  A std::string is a sequence of byte   *)
(* values.  A unique_ptr<DirLevel> is <<>> when null and <<level>> when it *)
(* owns a level.                                                           *)
(***************************************************************************)
EXTENDS Integers, Sequences, FiniteSets, TLC

VARIABLES
    pc,         \* position of the running program
    stack,      \* ReadDir calls on the recursion stack, innermost last
    openFds,    \* the process's open directory descriptors / DIR streams
    wroot,      \* CreateFromPath's local `root`
    out,        \* stdout: one element per printf call
    input,      \* unread part of the file CreateFromTraverseFile reads
    droot,      \* CreateFromTraverseFile's local `root`
    cur_line,   \* CreateFromTraverseFile's `line`, as getline filled it last
    line_num,   \* CreateFromTraverseFile's line_num
    err,        \* the exception in flight or caught by main (NoErr if none)
    root,       \* main's `root`
    from_file,  \* main's `from_file`
    in1,        \* main's `root` as it was handed to RemoveCommon
    in2,        \* main's `from_file` as it was handed to RemoveCommon
    prev1       \* the object the prev_ of the depth-1 levels of main's root and
                \* from_file designates

vars == <<pc, stack, openFds, wroot, out, input, droot, cur_line, line_num, err,
          root, from_file, in1, in2, prev1>>

\* The DirLevel objects no entry owns: the local `root` of each factory
\* function, which is the object it returns, and main's two variables
PathFactoryRoot == "CreateFromPath::root"
FileFactoryRoot == "CreateFromTraverseFile::root"
MainRoot == "main::root"
MainFromFile == "main::from_file"

\* no level has been handed to main yet
NoParents == [root |-> "none", from_file |-> "none"]

\* the objects whose lifetime has not ended: main's variables, and a
\* factory's root while the factory runs (the returned temporary is destroyed
\* at the end of the assignment statement)
LiveObjects ==
    {MainRoot, MainFromFile}
        \cup (IF pc \in {"walk", "unwind"} THEN {PathFactoryRoot} ELSE {})
        \cup (IF pc = "decode" THEN {FileFactoryRoot} ELSE {})

\* DirLevel's implicit move assignment, target = std::move(source): entries_
\* takes over the map's nodes, and the levels the entries own keep the prev_
\* their constructor was given, the address of source
PrevAfterMove(source, target) == source

-----------------------------------------------------------------------------
(* Bytes                                                                   *)

NL == 10
SP == 32
PLUS == 43
DASH == 45
DOT == 46
SLASH == 47
COLON == 58
DIGIT0 == 48

DT_DIR == 4
DT_REG == 8
DT_LNK == 10

IsDigit(c) == c >= DIGIT0 /\ c <= DIGIT0 + 9

\* isspace() for the bytes that occur (sscanf skips these before a number)
IsSpace(c) == c = SP \/ c = NL

Min(a, b) == IF a < b THEN a ELSE b

\* std::less<std::string>: byte-wise lexicographic, a proper prefix is less
StrLess(a, b) ==
    \E i \in 1..(Min(Len(a), Len(b)) + 1) :
        /\ \A j \in 1..(i - 1) : a[j] = b[j]
        /\ \/ i > Len(a) /\ i <= Len(b)
           \/ i <= Len(a) /\ i <= Len(b) /\ a[i] < b[i]

RECURSIVE Flatten(_)
Flatten(ss) == IF ss = <<>> THEN <<>> ELSE Head(ss) \o Flatten(Tail(ss))

-----------------------------------------------------------------------------
(* printf conversions                                                      *)

RECURSIVE Dec(_)
\* %d / %lu / %u of a non-negative value
Dec(n) == IF n < 10 THEN <<DIGIT0 + n>> ELSE Dec(n \div 10) \o <<DIGIT0 + (n % 10)>>

RECURSIVE Zeros(_)
Zeros(k) == IF k <= 0 THEN <<>> ELSE <<DIGIT0>> \o Zeros(k - 1)

\* %0<w>u / %0<w>lu : zero padded to at least w digits
Pad(n, w) == Zeros(w - Len(Dec(n))) \o Dec(n)

-----------------------------------------------------------------------------
(* gmtime / timegm (UTC, proleptic Gregorian calendar)                     *)

SecsPerDay == 86400

CivilFromDays(z0) ==
    LET z   == z0 + 719468
        era == z \div 146097
        doe == z - era * 146097
        yoe == (doe - doe \div 1460 + doe \div 36524 - doe \div 146096) \div 365
        doy == doe - (365 * yoe + yoe \div 4 - yoe \div 100)
        mp  == (5 * doy + 2) \div 153
        d   == doy - (153 * mp + 2) \div 5 + 1
        m   == IF mp < 10 THEN mp + 3 ELSE mp - 9
        y   == yoe + era * 400 + (IF m <= 2 THEN 1 ELSE 0)
    IN  [year |-> y, mon |-> m, mday |-> d]

DaysFromCivil(y0, m, d) ==
    LET y   == IF m <= 2 THEN y0 - 1 ELSE y0
        era == y \div 400
        yoe == y - era * 400
        doy == (153 * (IF m > 2 THEN m - 3 ELSE m + 9) + 2) \div 5 + d - 1
        doe == yoe * 365 + yoe \div 4 - yoe \div 100 + doy
    IN  era * 146097 + doe - 719468

\* struct tm *gmtime(&seconds)
gmtime(seconds) ==
    LET days == seconds \div SecsPerDay
        rem  == seconds - days * SecsPerDay
        c    == CivilFromDays(days)
    IN  [tm_year |-> c.year - 1900, tm_mon |-> c.mon - 1, tm_mday |-> c.mday,
         tm_hour |-> rem \div 3600, tm_min |-> (rem % 3600) \div 60,
         tm_sec |-> rem % 60]

\* time_t timegm(&tm_time), for a tm whose fields are in range
timegm(tm) ==
    DaysFromCivil(tm.tm_year + 1900, tm.tm_mon + 1, tm.tm_mday) * SecsPerDay
        + tm.tm_hour * 3600 + tm.tm_min * 60 + tm.tm_sec

-----------------------------------------------------------------------------
(* EntryInfo and DirLevel                                                  *)

NoErr == [what |-> "none", line |-> 0, text |-> <<>>]

\* DirLevel(prev, info): no entries
EmptyLevel == <<>>

\* EntryInfo{} : value-initialised, dir is a null unique_ptr
ValueInitEntry == [type |-> 0, size |-> 0, tv_sec |-> 0, tv_nsec |-> 0, dir |-> <<>>]

\* entries_.emplace(name, EntryInfo{}): inserts only when the key is absent
emplace(entries, name) ==
    IF name \in DOMAIN entries THEN entries
    ELSE [n \in DOMAIN entries \cup {name} |->
            IF n = name THEN ValueInitEntry ELSE entries[n]]

\* entries_.erase(it): the entry goes, and with it the level its dir owns
erase(entries, name) == [n \in DOMAIN entries \ {name} |-> entries[n]]

\* std::map's key order
MapOrder(a, b) == StrLess(a, b)

RECURSIVE SortedKeys(_)
\* the keys of a map in iteration order (begin() .. end())
SortedKeys(S) ==
    IF S = {} THEN <<>>
    ELSE LET m == CHOOSE x \in S : \A y \in S \ {x} : MapOrder(x, y)
         IN  <<m>> \o SortedKeys(S \ {m})

RECURSIVE CountEntries(_)
\* number of EntryInfo objects owned by a level, at every depth
CountEntries(level) ==
    LET RECURSIVE Sum(_)
        Sum(S) == IF S = {} THEN 0
                  ELSE LET n == CHOOSE x \in S : TRUE
                       IN  1 + (IF level[n].dir = <<>> THEN 0
                                ELSE CountEntries(level[n].dir[1]))
                             + Sum(S \ {n})
    IN  Sum(DOMAIN level)

RECURSIVE LevelAt(_, _)
\* the DirLevel reached from `level` through the dir pointers named by path
LevelAt(level, path) ==
    IF path = <<>> THEN level
    ELSE LevelAt(level[Head(path)].dir[1], Tail(path))

RECURSIVE ReplaceLevel(_, _, _)
\* `level` after the DirLevel at path has become newLevel (an in-place change)
ReplaceLevel(level, path, newLevel) ==
    IF path = <<>> THEN newLevel
    ELSE [level EXCEPT ![Head(path)].dir =
            <<ReplaceLevel(level[Head(path)].dir[1], Tail(path), newLevel)>>]

RECURSIVE FullPath(_)
\* DirLevel::FullPath of the level reached by the names in path: each
\* ancestor's *info_->name followed by '/'
FullPath(path) ==
    IF path = <<>> THEN <<>>
    ELSE FullPath(SubSeq(path, 1, Len(path) - 1)) \o path[Len(path)] \o <<SLASH>>

\* DirLevel::AddEntry
AddEntry(entries, d_name, d_type, file_stat) ==
    LET e == emplace(entries, d_name)
    IN  [e EXCEPT ![d_name].type = d_type,
                  ![d_name].size = IF d_type = DT_DIR THEN 0 ELSE file_stat.st_size,
                  ![d_name].tv_sec = file_stat.tv_sec,
                  ![d_name].tv_nsec = file_stat.tv_nsec]

-----------------------------------------------------------------------------
(* DirLevel::Traverse                                                      *)

\* printf("%s%s %d %lu %04u-%02u-%02u %02u:%02u:%02u.%09lu\n", ...)
FormatLine(path, name, info) ==
    LET tt == gmtime(info.tv_sec)
    IN  path \o name \o <<SP>> \o Dec(info.type) \o <<SP>> \o Dec(info.size)
        \o <<SP>> \o Pad(1900 + tt.tm_year, 4) \o <<DASH>> \o Pad(tt.tm_mon + 1, 2)
        \o <<DASH>> \o Pad(tt.tm_mday, 2) \o <<SP>> \o Pad(tt.tm_hour, 2)
        \o <<COLON>> \o Pad(tt.tm_min, 2) \o <<COLON>> \o Pad(tt.tm_sec, 2)
        \o <<DOT>> \o Pad(info.tv_nsec, 9) \o <<NL>>

\* (mutant) the recursion into the entry's dir before the entry's own printf
TraverseEntryAfter(ln, below) == below \o <<ln>>

\* one loop iteration: the entry's own printf, then the recursion into its dir
TraverseEntry(ln, below) == <<ln>> \o below

RECURSIVE TraverseKeys(_, _, _)
\* the loop of Traverse over the keys still to visit; the printf calls in order
TraverseKeys(keys, dir_level, path) ==
    IF keys = <<>> THEN <<>>
    ELSE LET name == Head(keys)
             info == dir_level[name]
             below == IF info.dir # <<>>
                      THEN TraverseKeys(SortedKeys(DOMAIN info.dir[1]), info.dir[1],
                                        path \o name \o <<SLASH>>)
                      ELSE <<>>
         IN  TraverseEntry(FormatLine(path, name, info), below)
             \o TraverseKeys(Tail(keys), dir_level, path)

Traverse(dir_level, path) == TraverseKeys(SortedKeys(DOMAIN dir_level), dir_level, path)

-----------------------------------------------------------------------------
(* DirLevel::CreateFromTraverseFile: one line                              *)

\* getline(): the bytes up to and including the first '\n', or all that is left
GetLine(text) ==
    LET nls == {i \in 1..Len(text) : text[i] = NL}
        n   == IF nls = {} THEN Len(text)
               ELSE CHOOSE i \in nls : \A j \in nls : i <= j
    IN  [line |-> SubSeq(text, 1, n), rest |-> SubSeq(text, n + 1, Len(text))]

\* the backward scan for the final four fields: the number of bytes before the
\* fourth ' ' counted from the end of the line (ofs), or -1 when remain != 0
ScanBack(line) ==
    LET sp == {i \in 1..Len(line) : line[i] = SP}
    IN  IF Cardinality(sp) < 4 THEN -1
        ELSE (CHOOSE i \in sp : Cardinality({j \in sp : j > i}) = 3) - 1

RECURSIVE SkipSpace(_, _)
SkipSpace(s, pos) ==
    IF pos <= Len(s) /\ IsSpace(s[pos]) THEN SkipSpace(s, pos + 1) ELSE pos

RECURSIVE ScanDigits(_, _, _)
\* the digits at pos: [val, pos] with pos after the last digit
ScanDigits(s, pos, acc) ==
    IF pos <= Len(s) /\ IsDigit(s[pos])
    THEN ScanDigits(s, pos + 1, acc * 10 + (s[pos] - DIGIT0))
    ELSE [val |-> acc, pos |-> pos]

\* one %d / %lu / %ld conversion: white space, an optional sign, digits
ScanNumber(s, pos0) ==
    LET p1   == SkipSpace(s, pos0)
        neg  == p1 <= Len(s) /\ s[p1] = DASH
        p2   == IF p1 <= Len(s) /\ (s[p1] = DASH \/ s[p1] = PLUS) THEN p1 + 1 ELSE p1
        ok   == p2 <= Len(s) /\ IsDigit(s[p2])
        d    == ScanDigits(s, p2, 0)
    IN  IF ok THEN [ok |-> TRUE, val |-> IF neg THEN 0 - d.val ELSE d.val, pos |-> d.pos]
        ELSE [ok |-> FALSE, val |-> 0, pos |-> p1]

\* "%d %lu %d-%d-%d %d:%d:%d.%ld" : 0 stands for a conversion, SP for white
\* space in the format, any other byte for itself
ScanFormat == <<0, SP, 0, SP, 0, DASH, 0, DASH, 0, SP, 0, COLON, 0, COLON, 0, DOT, 0>>

RECURSIVE ScanFields(_, _, _, _)
\* sscanf: the values converted before the first directive that fails
ScanFields(s, pos, fmt, vals) ==
    IF fmt = <<>> THEN vals
    ELSE IF Head(fmt) = 0
         THEN LET r == ScanNumber(s, pos)
              IN  IF r.ok THEN ScanFields(s, r.pos, Tail(fmt), Append(vals, r.val))
                  ELSE vals
         ELSE IF Head(fmt) = SP
              THEN ScanFields(s, SkipSpace(s, pos), Tail(fmt), vals)
              ELSE IF pos <= Len(s) /\ s[pos] = Head(fmt)
                   THEN ScanFields(s, pos + 1, Tail(fmt), vals)
                   ELSE vals

sscanf(s) == ScanFields(s, 1, ScanFormat, <<>>)

\* fullpath.rfind('/') as a 1-based position, 0 for npos
LastSlash(fullpath) ==
    LET sl == {i \in 1..Len(fullpath) : fullpath[i] = SLASH}
    IN  IF sl = {} THEN 0 ELSE CHOOSE i \in sl : \A j \in sl : j <= i

RECURSIVE Components(_)
\* the component loop over dirname: the bytes between successive '/' (empty
\* ones included), up to the last '/'
Components(dirname) ==
    LET sl == {i \in 1..Len(dirname) : dirname[i] = SLASH}
    IN  IF sl = {} THEN <<>>
        ELSE LET e == CHOOSE i \in sl : \A j \in sl : i <= j
             IN  <<SubSeq(dirname, 1, e - 1)>>
                 \o Components(SubSeq(dirname, e + 1, Len(dirname)))

\* the test that lets the navigation step into a component
DirFound(entries, component) ==
    /\ component \in DOMAIN entries
    /\ entries[component].type = DT_DIR
    /\ entries[component].dir # <<>>

RECURSIVE Navigate(_, _, _)
\* the navigation from &root: current_dir (as the names leading to it) when every
\* component is found, else the component that is not and the level it is missing in
Navigate(root_level, comps, current_dir) ==
    IF comps = <<>> THEN [found |-> TRUE, dir |-> current_dir, component |-> <<>>]
    ELSE IF Head(comps) = <<>> THEN Navigate(root_level, Tail(comps), current_dir)
         ELSE IF DirFound(LevelAt(root_level, current_dir), Head(comps))
              THEN Navigate(root_level, Tail(comps), Append(current_dir, Head(comps)))
              ELSE [found |-> FALSE, dir |-> current_dir, component |-> Head(comps)]

\* "Add the file/directory entry at the current level"
InsertLeaf(entries, file_name, type, size, sec, nsec) ==
    LET e == emplace(entries, file_name)
    IN  [e EXCEPT ![file_name].type = type,
                  ![file_name].size = size,
                  ![file_name].tv_sec = sec,
                  ![file_name].tv_nsec = nsec,
                  ![file_name].dir = IF type = DT_DIR THEN <<EmptyLevel>> ELSE @]

\* (mutant) the line number taken before line_num++
ErrLineNumZeroBased(n) == n - 1

\* the line number an exception of the loop body reports
ErrLineNum(n) == n

\* The body of the getline loop for one line, n being line_num after line_num++:
\* the root after the line, or the exception thrown
ParseLine(root_level, line, n) ==
    LET ofs == ScanBack(line)
    IN  IF ofs < 0
        THEN [ok |-> FALSE, root |-> root_level,
              err |-> [what |-> "Parse error: reading final four fields",
                       line |-> ErrLineNum(n), text |-> <<>>]]
        ELSE
        LET f == sscanf(SubSeq(line, ofs + 2, Len(line)))
        IN  IF Len(f) # 9
            THEN [ok |-> FALSE, root |-> root_level,
                  err |-> [what |-> "Parse error: expected 9 fields",
                           line |-> ErrLineNum(n), text |-> Dec(Len(f))]]
            ELSE
            LET tm_time == [tm_year |-> f[3] - 1900, tm_mon |-> f[4] - 1,
                            tm_mday |-> f[5], tm_hour |-> f[6], tm_min |-> f[7],
                            tm_sec |-> f[8]]
                fullpath == SubSeq(line, 1, ofs)
                last_slash == LastSlash(fullpath)
                dirname == SubSeq(fullpath, 1, last_slash)
                file_name == SubSeq(fullpath, last_slash + 1, Len(fullpath))
                nav == Navigate(root_level, Components(dirname), <<>>)
            IN  IF ~nav.found
                THEN [ok |-> FALSE, root |-> root_level,
                      err |-> [what |-> "Directory not found",
                               line |-> ErrLineNum(n),
                               text |-> FullPath(nav.dir) \o nav.component]]
                ELSE [ok |-> TRUE,
                      root |-> ReplaceLevel(root_level, nav.dir,
                                  InsertLeaf(LevelAt(root_level, nav.dir), file_name,
                                             f[1], f[2], timegm(tm_time), f[9])),
                      err |-> NoErr]

-----------------------------------------------------------------------------
(* The directory tree CreateFromPath walks, as the system calls reveal it  *)

MaxEntries == 3

\* names readdir can return besides "." and ".." : "a", "a b", "b\n"
WalkNames == {<<97>>, <<97, SP, 98>>, <<98, NL>>}
DotNames == {<<DOT>>, <<DOT, DOT>>}

\* d_type values readdir can report
DTypes == {DT_DIR, DT_REG}

\* what fstatat can store in file_stat
StatSet == {[st_size |-> 5, tv_sec |-> 0, tv_nsec |-> 0],
            [st_size |-> 1234, tv_sec |-> 1709251199, tv_nsec |-> 7]}

\* open / openat return the lowest descriptor not in use (0, 1, 2 are taken)
NewFd(fds) == CHOOSE n \in 3..(3 + Cardinality(fds)) :
                 n \notin fds /\ \A m \in 3..(n - 1) : m \in fds

Top == stack[Len(stack)]
Pop == SubSeq(stack, 1, Len(stack) - 1)

\* a ReadDir call: `this` (as the names leading to it), the descriptor it was
\* handed, whether fdopendir has made the DIR stream
NewFrame(this, fd) == [this |-> this, fd |-> fd, dir |-> FALSE]

\* a directory stream returns each name once: the names readdir can still return
\* to the innermost ReadDir
Unread == WalkNames \ DOMAIN LevelAt(wroot, stack[Len(stack)].this)

\* (mutant) the fdopendir failure branch without its close(fddir)
FdopendirFailedLeak(fds, fddir) == fds

\* the descriptors open after the fdopendir failure branch has run close(fddir)
FdopendirFailed(fds, fddir) == fds \ {fddir}

\* the descriptors open after closedir() has run on a ReadDir's DIR stream
Closedir(fds, fd) == fds \ {fd}

WalkErr(what, text) == [what |-> what, line |-> 0, text |-> text]

-----------------------------------------------------------------------------
(* DirLevel::CreateFromPath and DirLevel::ReadDir                          *)

\* access() < 0
AccessFails ==
    /\ pc = "start"
    /\ pc' = "walk_failed"
    /\ err' = WalkErr("Cannot access", <<>>)
    /\ UNCHANGED <<stack, openFds, wroot, out, input, droot, cur_line, line_num, root,
                   from_file, in1, in2, prev1>>

\* open() < 0
OpenFails ==
    /\ pc = "start"
    /\ pc' = "walk_failed"
    /\ err' = WalkErr("Cannot open", <<>>)
    /\ UNCHANGED <<stack, openFds, wroot, out, input, droot, cur_line, line_num, root,
                   from_file, in1, in2, prev1>>

\* open() succeeds; root is constructed and root.ReadDir(fddir) is entered
OpenRoot ==
    /\ pc = "start"
    /\ LET fddir == NewFd(openFds)
       IN  /\ openFds' = openFds \cup {fddir}
           /\ stack' = <<NewFrame(<<>>, fddir)>>
    /\ wroot' = EmptyLevel
    /\ pc' = "walk"
    /\ UNCHANGED <<out, input, droot, cur_line, line_num, err, root, from_file, in1, in2,
                   prev1>>

\* fdopendir(fddir) returns a DIR stream, owned by the unique_ptr `dir`
FdopendirOk ==
    /\ pc = "walk" /\ stack # <<>> /\ ~Top.dir
    /\ stack' = [stack EXCEPT ![Len(stack)].dir = TRUE]
    /\ UNCHANGED <<pc, openFds, wroot, out, input, droot, cur_line, line_num, err, root,
                   from_file, in1, in2, prev1>>

\* fdopendir(fddir) returns NULL: close(fddir), throw out of this ReadDir
FdopendirFails ==
    /\ pc = "walk" /\ stack # <<>> /\ ~Top.dir
    /\ openFds' = FdopendirFailed(openFds, Top.fd)
    /\ err' = WalkErr("Error opening directory", FullPath(Top.this))
    /\ stack' = Pop
    /\ pc' = "unwind"
    /\ UNCHANGED <<wroot, out, input, droot, cur_line, line_num, root, from_file, in1, in2,
                   prev1>>

\* readdir returns "." or "..": continue
ReaddirDot ==
    /\ pc = "walk" /\ stack # <<>> /\ Top.dir
    /\ \E d_name \in DotNames : UNCHANGED vars

\* readdir returns an entry and fstatat fails: throw
FstatatFails ==
    /\ pc = "walk" /\ stack # <<>> /\ Top.dir
    /\ CountEntries(wroot) < MaxEntries
    /\ \E d_name \in Unread :
          err' = WalkErr("Can't stat", FullPath(Top.this) \o d_name)
    /\ pc' = "unwind"
    /\ UNCHANGED <<stack, openFds, wroot, out, input, droot, cur_line, line_num, root, from_file,
                   in1, in2, prev1>>

\* readdir returns an entry that is not DT_DIR: fstatat, AddEntry
ReaddirFile ==
    /\ pc = "walk" /\ stack # <<>> /\ Top.dir
    /\ CountEntries(wroot) < MaxEntries
    /\ \E d_name \in Unread, d_type \in DTypes \ {DT_DIR},
          file_stat \in StatSet :
          /\ wroot' = ReplaceLevel(wroot, Top.this,
                         AddEntry(LevelAt(wroot, Top.this), d_name, d_type, file_stat))
    /\ UNCHANGED <<pc, stack, openFds, out, input, droot, cur_line, line_num, err, root, from_file,
                   in1, in2, prev1>>

\* readdir returns a DT_DIR entry: fstatat, AddEntry, openat succeeds, the new
\* DirLevel is made and its ReadDir(nextfd) is entered
ReaddirDir ==
    /\ pc = "walk" /\ stack # <<>> /\ Top.dir
    /\ CountEntries(wroot) < MaxEntries
    /\ \E d_name \in Unread, file_stat \in StatSet :
          LET added  == AddEntry(LevelAt(wroot, Top.this), d_name, DT_DIR, file_stat)
              nextfd == NewFd(openFds)
          IN  /\ wroot' = ReplaceLevel(wroot, Top.this,
                             [added EXCEPT ![d_name].dir = <<EmptyLevel>>])
              /\ openFds' = openFds \cup {nextfd}
              /\ stack' = Append(stack, NewFrame(Append(Top.this, d_name), nextfd))
    /\ UNCHANGED <<pc, out, input, droot, cur_line, line_num, err, root, from_file, in1, in2,
                   prev1>>

\* readdir returns a DT_DIR entry: fstatat, AddEntry, openat fails: throw
OpenatFails ==
    /\ pc = "walk" /\ stack # <<>> /\ Top.dir
    /\ CountEntries(wroot) < MaxEntries
    /\ \E d_name \in Unread, file_stat \in StatSet :
          /\ wroot' = ReplaceLevel(wroot, Top.this,
                         AddEntry(LevelAt(wroot, Top.this), d_name, DT_DIR, file_stat))
          /\ err' = WalkErr("Can't open directory", FullPath(Top.this) \o d_name)
    /\ pc' = "unwind"
    /\ UNCHANGED <<stack, openFds, out, input, droot, cur_line, line_num, root, from_file, in1, in2,
                   prev1>>

\* readdir returns NULL: ReadDir returns, the unique_ptr runs closedir
ReaddirEnd ==
    /\ pc = "walk" /\ stack # <<>> /\ Top.dir
    /\ openFds' = Closedir(openFds, Top.fd)
    /\ stack' = Pop
    /\ UNCHANGED <<pc, wroot, out, input, droot, cur_line, line_num, err, root, from_file,
                   in1, in2, prev1>>

\* the exception leaves one more ReadDir: its unique_ptr runs closedir
Unwind ==
    /\ pc = "unwind" /\ stack # <<>>
    /\ openFds' = Closedir(openFds, Top.fd)
    /\ stack' = Pop
    /\ UNCHANGED <<pc, wroot, out, input, droot, cur_line, line_num, err, root, from_file,
                   in1, in2, prev1>>

\* (mutant) main receives what the walk had built when it failed
WalkCaughtKeepsTree ==
    /\ pc = "unwind" /\ stack = <<>>
    /\ root' = wroot
    /\ wroot' = EmptyLevel
    /\ pc' = "walk_failed"
    /\ UNCHANGED <<stack, openFds, out, input, droot, cur_line, line_num, err,
                   from_file, in1, in2, prev1>>

\* the exception leaves CreateFromPath (its root is destroyed) and main catches it
WalkCaught ==
    /\ pc = "unwind" /\ stack = <<>>
    /\ wroot' = EmptyLevel
    /\ pc' = "walk_failed"
    /\ UNCHANGED <<stack, openFds, out, input, droot, cur_line, line_num, err, root,
                   from_file, in1, in2, prev1>>

\* root.ReadDir(fddir) has returned: return root; main assigns it to its root
CreateFromPathReturns ==
    /\ pc = "walk" /\ stack = <<>>
    /\ root' = wroot
    /\ wroot' = EmptyLevel
    /\ pc' = "walked"
    /\ UNCHANGED <<stack, openFds, out, input, droot, cur_line, line_num, err, from_file,
                   in1, in2>>
    /\ prev1' = [prev1 EXCEPT !.root = PrevAfterMove(PathFactoryRoot, MainRoot)]

\* file-lister's main: DirLevel::Traverse(&root, basedir)
ListerTraverse ==
    /\ pc = "walked"
    /\ out' = Traverse(root, <<>>)
    /\ pc' = "listed"
    /\ UNCHANGED <<stack, openFds, wroot, input, droot, cur_line, line_num, err, root,
                   from_file, in1, in2, prev1>>

-----------------------------------------------------------------------------
(* DirLevel::CreateFromTraverseFile                                        *)

\* fopen() of a file that holds what file-lister printed
OpenListing ==
    /\ pc = "listed"
    /\ input' = Flatten(out)
    /\ droot' = EmptyLevel
    /\ cur_line' = <<>>
    /\ line_num' = 0
    /\ pc' = "decode"
    /\ UNCHANGED <<stack, openFds, wroot, out, err, root, from_file, in1, in2, prev1>>

\* one pass of the getline loop over `line`
DecodeLine(l) ==
    LET r == ParseLine(droot, l, line_num + 1)
    IN  /\ cur_line' = l
        /\ line_num' = line_num + 1
        /\ droot' = r.root
        /\ err' = r.err
        /\ pc' = IF r.ok THEN "decode" ELSE "decode_failed"
        /\ UNCHANGED <<stack, openFds, wroot, out, root, from_file, in1, in2, prev1>>

\* getline reads the next line of the listing
DecodeFileLine ==
    /\ pc = "decode" /\ input # <<>>
    /\ DecodeLine(GetLine(input).line)
    /\ input' = GetLine(input).rest

\* getline returns -1: return root; main assigns it to from_file
DecodeEof ==
    /\ pc = "decode" /\ input = <<>>
    /\ from_file' = droot
    /\ droot' = EmptyLevel
    /\ pc' = "decoded"
    /\ UNCHANGED <<stack, openFds, wroot, out, input, cur_line, line_num, err, root, in1,
                   in2>>
    /\ prev1' = [prev1 EXCEPT !.from_file = PrevAfterMove(FileFactoryRoot, MainFromFile)]

-----------------------------------------------------------------------------
(* file-lister run on a directory, and CreateFromTraverseFile run on what  *)
(* it printed                                                              *)

InitRT ==
    /\ pc = "start"
    /\ stack = <<>>
    /\ openFds = {}
    /\ wroot = EmptyLevel
    /\ out = <<>>
    /\ input = <<>>
    /\ droot = EmptyLevel
    /\ cur_line = <<>>
    /\ line_num = 0
    /\ err = NoErr
    /\ root = EmptyLevel
    /\ from_file = EmptyLevel
    /\ in1 = EmptyLevel
    /\ in2 = EmptyLevel
    /\ prev1 = NoParents

NextRT ==
    \/ AccessFails
    \/ OpenFails
    \/ OpenRoot
    \/ FdopendirOk
    \/ FdopendirFails
    \/ ReaddirDot
    \/ FstatatFails
    \/ ReaddirFile
    \/ ReaddirDir
    \/ OpenatFails
    \/ ReaddirEnd
    \/ Unwind
    \/ WalkCaught
    \/ CreateFromPathReturns
    \/ ListerTraverse
    \/ OpenListing
    \/ DecodeFileLine
    \/ DecodeEof

SpecRT == InitRT /\ [][NextRT]_vars

-----------------------------------------------------------------------------
(* What a printed line says, read off its bytes                            *)

IsPrefix(a, b) == Len(a) <= Len(b) /\ SubSeq(b, 1, Len(a)) = a

\* the path a printed line starts with: the bytes before " type size date time"
PrintedPath(ln) ==
    LET sp == {i \in 1..Len(ln) : ln[i] = SP}
        b  == CHOOSE i \in sp : Cardinality({j \in sp : j >= i}) = 4
    IN  SubSeq(ln, 1, b - 1)

\* the directory part of a path (through its last '/') and the name after it
DirPart(p) ==
    LET sl == {i \in 1..Len(p) : p[i] = SLASH}
    IN  IF sl = {} THEN <<>> ELSE SubSeq(p, 1, CHOOSE i \in sl : \A j \in sl : j <= i)

NamePart(p) == SubSeq(p, Len(DirPart(p)) + 1, Len(p))

\* line j of the listing belongs to a descendant of the entry of line i
LineUnder(j, i) == IsPrefix(PrintedPath(out[i]) \o <<SLASH>>, PrintedPath(out[j]))

NoNewlineNames(listing) == \A i \in DOMAIN listing : NL \notin
    {PrintedPath(listing[i])[k] : k \in 1..Len(PrintedPath(listing[i]))}

-----------------------------------------------------------------------------
(* Claims checked on SpecRT                                                *)

\* C1 (as claimed): for any tree CreateFromPath returns, CreateFromTraverseFile
\* run on the lines Traverse printed returns an equal tree: same names, same
\* nesting, same type, size and mtime for every entry.
RoundTrip ==
    pc \in {"decoded", "decode_failed"} => (pc = "decoded" /\ from_file = root)

\* C1 (supporting): the round trip does hold for every walked tree none of whose
\* names contains a newline byte.
RoundTripWithoutNewline ==
    (pc \in {"decoded", "decode_failed"} /\ NoNewlineNames(out))
        => (pc = "decoded" /\ from_file = root)

\* C5: Traverse prints the entries of one directory level in strictly ascending
\* byte-wise name order, a directory's own line before every line of its
\* descendants, and all of its descendants' lines before its next sibling's line.
EncodeOrdering ==
    pc = "listed" =>
        /\ \A i, j \in DOMAIN out :
              (i < j /\ DirPart(PrintedPath(out[i])) = DirPart(PrintedPath(out[j])))
                  => StrLess(NamePart(PrintedPath(out[i])), NamePart(PrintedPath(out[j])))
        /\ \A j \in DOMAIN out :
              DirPart(PrintedPath(out[j])) # <<>>
                  => \E i \in 1..(j - 1) :
                        PrintedPath(out[i]) \o <<SLASH>> = DirPart(PrintedPath(out[j]))
        /\ \A i, k \in DOMAIN out :
              LineUnder(k, i) => (i < k /\ \A m \in (i + 1)..k : LineUnder(m, i))

\* C5 witness: a listing of a directory, an entry inside it, then its next sibling
EncodeOrderingWitness ==
    /\ pc = "listed"
    /\ Len(out) = 3
    /\ LineUnder(2, 1)
    /\ ~LineUnder(3, 1)
    /\ DirPart(PrintedPath(out[3])) = <<>>

\* C9 (as claimed): the full paths of the printed lines, in output order, are in
\* ascending byte-wise order.
PathsAscending ==
    pc = "listed" =>
        \A i \in 1..(Len(out) - 1) :
            StrLess(PrintedPath(out[i]), PrintedPath(out[i + 1]))

\* C10: the open directory handles are exactly those of the ReadDir calls on the
\* recursion stack, one each, and none is open once CreateFromPath has returned
\* or failed.
HandleDiscipline ==
    /\ openFds = {stack[i].fd : i \in DOMAIN stack}
    /\ Cardinality(openFds) = Len(stack)
    /\ pc \notin {"walk", "unwind"} => openFds = {}

\* C10 witness: the walk has failed in fdopendir of a subdirectory
HandleDisciplineWitness ==
    /\ pc = "walk_failed"
    /\ err.what = "Error opening directory"
    /\ err.text # <<>>
    /\ openFds = {}

-----------------------------------------------------------------------------
(* file-comparer's CreateFromTraverseFile run on an arbitrary input file:  *)
(* the file's lines are supplied one by one as getline reads them          *)

MaxLines == 3

\* "a", "b", "a/a", "a/b", "a/a/b", "a//b"
LinePaths == {<<97>>, <<98>>, <<97, SLASH, 97>>, <<97, SLASH, 98>>,
              <<97, SLASH, 97, SLASH, 98>>, <<97, SLASH, SLASH, 98>>}

LineInfos == {[type |-> DT_DIR, size |-> 0, tv_sec |-> 0, tv_nsec |-> 0],
              [type |-> DT_REG, size |-> 5, tv_sec |-> 0, tv_nsec |-> 0],
              [type |-> DT_REG, size |-> 1234, tv_sec |-> 1709251199, tv_nsec |-> 7]}

\* lines in the format Traverse prints
WellFormedLines == {FormatLine(<<>>, p, i) : p \in LinePaths, i \in LineInfos}

\* "a\n", and "a 8 5 1970-01-01 00:00:00\n" (no nanoseconds)
MalformedLines ==
    LET l0 == FormatLine(<<>>, <<97>>, [type |-> DT_REG, size |-> 5, tv_sec |-> 0,
                                       tv_nsec |-> 0])
    IN  {<<97, NL>>, SubSeq(l0, 1, Len(l0) - 11) \o <<NL>>}

\* lines at the boundary of the backward scan: a path with a space in it
\* ("a b", five spaces), an empty path (four spaces, the fourth from the end
\* being the line's first byte) and the same line without its first byte
\* (three spaces, nine fields)
BoundaryLines ==
    LET i0 == [type |-> DT_REG, size |-> 5, tv_sec |-> 0, tv_nsec |-> 0]
    IN  {FormatLine(<<>>, <<97, SP, 98>>, i0), FormatLine(<<>>, <<>>, i0),
         Tail(FormatLine(<<>>, <<>>, i0))}

LineSet == WellFormedLines \cup MalformedLines \cup BoundaryLines

\* getline reads one more line of the input file
DecodeAnyLine ==
    /\ pc = "decode" /\ line_num < MaxLines
    /\ \E l \in LineSet : DecodeLine(l)
    /\ UNCHANGED input

InitDecode ==
    /\ pc = "decode"
    /\ stack = <<>>
    /\ openFds = {}
    /\ wroot = EmptyLevel
    /\ out = <<>>
    /\ input = <<>>
    /\ droot = EmptyLevel
    /\ cur_line = <<>>
    /\ line_num = 0
    /\ err = NoErr
    /\ root = EmptyLevel
    /\ from_file = EmptyLevel
    /\ in1 = EmptyLevel
    /\ in2 = EmptyLevel
    /\ prev1 = NoParents

NextDecode ==
    \/ DecodeAnyLine
    \/ DecodeEof

SpecDecode == InitDecode /\ [][NextDecode]_vars

-----------------------------------------------------------------------------
(* What an input line says, read off its bytes                             *)

\* the final four fields are there and scan as nine numbers
FieldsOk(ln) ==
    /\ Cardinality({i \in 1..Len(ln) : ln[i] = SP}) >= 4
    /\ Len(sscanf(SubSeq(ln, Len(PrintedPath(ln)) + 2, Len(ln)))) = 9

\* the non-empty '/'-separated names of the directory part of a path
PrefixNames(p) ==
    LET d  == DirPart(p)
        sl == {i \in 1..Len(d) : d[i] = SLASH}
        At(k) == CHOOSE i \in sl : Cardinality({j \in sl : j <= i}) = k
        Seg(k) == SubSeq(d, IF k = 1 THEN 1 ELSE At(k - 1) + 1, At(k) - 1)
    IN  SelectSeq([k \in 1..Cardinality(sl) |-> Seg(k)], LAMBDA x : x # <<>>)

RECURSIVE IsDirChain(_, _)
\* each of the names, in turn, is a Directory entry at the level reached so far
IsDirChain(level, names) ==
    \/ names = <<>>
    \/ /\ Head(names) \in DOMAIN level
       /\ level[Head(names)].type = DT_DIR
       /\ level[Head(names)].dir # <<>>
       /\ IsDirChain(level[Head(names)].dir[1], Tail(names))

RECURSIVE JoinPath(_)
JoinPath(names) ==
    IF Len(names) <= 1 THEN Flatten(names)
    ELSE Head(names) \o <<SLASH>> \o JoinPath(Tail(names))

\* the directory prefix of the line has a component that is missing at its
\* level, or is there but is not a Directory; k is that component's position
BrokenAt(level, ln, k) ==
    /\ FieldsOk(ln)
    /\ k \in 1..Len(PrefixNames(PrintedPath(ln)))
    /\ IsDirChain(level, SubSeq(PrefixNames(PrintedPath(ln)), 1, k - 1))
    /\ ~IsDirChain(level, SubSeq(PrefixNames(PrintedPath(ln)), 1, k))

\* the line's leaf name is already an entry of the level its prefix leads to
LeafPresent(level, ln) ==
    /\ FieldsOk(ln)
    /\ IsDirChain(level, PrefixNames(PrintedPath(ln)))
    /\ NamePart(PrintedPath(ln)) \in
          DOMAIN LevelAt(level, PrefixNames(PrintedPath(ln)))

LeafEntry(level, ln) ==
    LevelAt(level, PrefixNames(PrintedPath(ln)))[NamePart(PrintedPath(ln))]

RECURSIVE ChildIffDir(_)
\* at every depth an entry owns a child level exactly when its type is DT_DIR
ChildIffDir(level) ==
    \A n \in DOMAIN level :
        /\ (level[n].dir # <<>>) <=> (level[n].type = DT_DIR)
        /\ level[n].dir # <<>> => ChildIffDir(level[n].dir[1])

-----------------------------------------------------------------------------
(* Claims checked on SpecDecode                                            *)

\* C6: when a line's directory prefix has a component that, given the lines
\* decoded before it, is missing at its level or is not a Directory, decoding
\* fails with an error that cites that component and the line's 1-based number,
\* and no entry is created for it.
StrictDecode ==
    [][\A k \in 1..Len(cur_line') :
          (pc = "decode" /\ line_num' = line_num + 1 /\ BrokenAt(droot, cur_line', k))
              => /\ pc' = "decode_failed"
                 /\ err'.what = "Directory not found"
                 /\ err'.line = line_num + 1
                 /\ err'.text = JoinPath(SubSeq(PrefixNames(PrintedPath(cur_line')), 1, k))
                 /\ droot' = droot]_vars

\* C6 witness: line 3 names "a/a/b" when "a" is a directory and "a/a" is an
\* entry that is not one; decoding has failed citing a/a and line 3
StrictDecodeWitness ==
    /\ pc = "decode_failed"
    /\ err = [what |-> "Directory not found", line |-> 3, text |-> <<97, SLASH, 97>>]
    /\ IsDirChain(droot, << <<97>> >>)
    /\ <<97>> \in DOMAIN LevelAt(droot, << <<97>> >>)
    /\ ~IsDirChain(droot, << <<97>>, <<97>> >>)

\* C7 (as claimed): inserting a leaf name that is already present at its level
\* leaves the existing entry's type, size, mtime and child unchanged.
InsertIdempotent ==
    [][(pc = "decode" /\ pc' = "decode" /\ line_num' = line_num + 1
            /\ LeafPresent(droot, cur_line'))
          => LeafEntry(droot', cur_line') = LeafEntry(droot, cur_line')]_vars

\* C8 (as claimed): in every tree main holds (returned by CreateFromPath or
\* CreateFromTraverseFile, or pruned by RemoveCommon) an entry owns a child
\* level if and only if its type is DT_DIR.
ChildIffDirectory == ChildIffDir(root) /\ ChildIffDir(from_file)

-----------------------------------------------------------------------------
(* DirLevel::RemoveCommon                                                  *)

\* info1.type == DT_DIR && info2.type == DT_DIR
BothDirectories(info1, info2) == info1.type = DT_DIR /\ info2.type = DT_DIR

\* the second entry may be the smaller one
IdenticalEntriesOneSided(info1, info2) ==
    /\ info2.type = info1.type
    /\ info2.size <= info1.size
    /\ info2.tv_sec = info1.tv_sec
    /\ info2.tv_nsec = info1.tv_nsec

\* the comparison that decides whether two entries are identical
IdenticalEntries(info1, info2) ==
    /\ info2.type = info1.type
    /\ info2.size = info1.size
    /\ info2.tv_sec = info1.tv_sec
    /\ info2.tv_nsec = info1.tv_nsec

\* an emptied directory is left in place
EraseNever(entries, name) == entries

\* if (info.dir.get()->entries_.empty()) entries_.erase(it)
EraseIfEmpty(entries, name) ==
    IF entries[name].dir[1] = EmptyLevel THEN erase(entries, name) ELSE entries

\* the two directories go only together, when both are empty
EraseEmptiedTogether(d1, d2, name) ==
    IF d1[name].dir[1] = EmptyLevel /\ d2[name].dir[1] = EmptyLevel
    THEN [dir1 |-> erase(d1, name), dir2 |-> erase(d2, name)]
    ELSE [dir1 |-> d1, dir2 |-> d2]

\* "Remove directory entries only if they are now empty": one test per side
EraseEmptied(d1, d2, name) ==
    [dir1 |-> EraseIfEmpty(d1, name), dir2 |-> EraseIfEmpty(d2, name)]

RECURSIVE RemoveCommon(_, _, _)
RECURSIVE RemoveCommonFrom(_, _, _, _)

\* the loop over dir1's entries from the iterator position `keys` on; d1 and d2
\* are the two levels as mutated so far, path the names that lead to them.
\* The result is the two levels when the loop ends or throws.
RemoveCommonFrom(keys, d1, d2, path) ==
    IF keys = <<>> THEN [dir1 |-> d1, dir2 |-> d2, thrown |-> FALSE, text |-> <<>>]
    ELSE
      LET name == Head(keys)
          next == Tail(keys)
      IN
      IF name \notin DOMAIN d2 THEN RemoveCommonFrom(next, d1, d2, path)
      ELSE
        LET info1 == d1[name]
            info2 == d2[name]
        IN
        IF BothDirectories(info1, info2) THEN
          IF info1.dir = <<>> \/ info2.dir = <<>>
          THEN [dir1 |-> d1, dir2 |-> d2, thrown |-> TRUE,
                text |-> FullPath(path) \o name]
          ELSE
            LET r  == RemoveCommon(info1.dir[1], info2.dir[1], Append(path, name))
                n1 == [d1 EXCEPT ![name].dir = <<r.dir1>>]
                n2 == [d2 EXCEPT ![name].dir = <<r.dir2>>]
                e  == EraseEmptied(n1, n2, name)
            IN  IF r.thrown
                THEN [dir1 |-> n1, dir2 |-> n2, thrown |-> TRUE, text |-> r.text]
                ELSE RemoveCommonFrom(next, e.dir1, e.dir2, path)
        ELSE IF IdenticalEntries(info1, info2)
        THEN RemoveCommonFrom(next, erase(d1, name), erase(d2, name), path)
        ELSE RemoveCommonFrom(next, d1, d2, path)

\* the loop ends after the first entry of dir1
RemoveCommonFirstOnly(dir1, dir2, path) ==
    LET keys == SortedKeys(DOMAIN dir1)
    IN  RemoveCommonFrom(IF keys = <<>> THEN keys ELSE <<Head(keys)>>, dir1, dir2, path)

RemoveCommon(dir1, dir2, path) ==
    RemoveCommonFrom(SortedKeys(DOMAIN dir1), dir1, dir2, path)

-----------------------------------------------------------------------------
(* file-comparer: RemoveCommon on the tree walked from the path and the    *)
(* tree decoded from the file, then both trees printed                     *)

\* the most entries in the tree from the path, and in the tree from the file
MaxPathEntries == 2
MaxFileEntries == 3

DiffNames == {<<97>>, <<98>>}

\* entries without a child: a file of 100 bytes; the same with another type,
\* another size, another second, another nanosecond
LeafEntries ==
    {[type |-> DT_REG, size |-> 100, tv_sec |-> 0, tv_nsec |-> 0, dir |-> <<>>],
     [type |-> DT_LNK, size |-> 100, tv_sec |-> 0, tv_nsec |-> 0, dir |-> <<>>],
     [type |-> DT_REG, size |-> 1, tv_sec |-> 0, tv_nsec |-> 0, dir |-> <<>>],
     [type |-> DT_REG, size |-> 100, tv_sec |-> 1, tv_nsec |-> 0, dir |-> <<>>],
     [type |-> DT_REG, size |-> 100, tv_sec |-> 0, tv_nsec |-> 1, dir |-> <<>>]}

\* a directory entry as AddEntry and the DT_DIR line leave it
DirEntry(child) ==
    [type |-> DT_DIR, size |-> 0, tv_sec |-> 0, tv_nsec |-> 0, dir |-> <<child>>]

\* what CreateFromTraverseFile leaves when a later line names a directory's
\* path with type 8: the fields of the later line, the child of the earlier
RetypedEntry(child) ==
    [type |-> DT_REG, size |-> 100, tv_sec |-> 0, tv_nsec |-> 0, dir |-> <<child>>]

Put(entries, name, info) ==
    [n \in DOMAIN entries \cup {name} |-> IF n = name THEN info ELSE entries[n]]

RECURSIVE Levels(_, _, _)
\* the levels with keys in `names` that hold n entries at all depths; decoded
\* tells whether the tree comes from CreateFromTraverseFile
Levels(names, n, decoded) ==
    IF names = {} THEN (IF n = 0 THEN {EmptyLevel} ELSE {})
    ELSE
      LET x    == CHOOSE y \in names : TRUE
          rest == names \ {x}
          Owners(c) == {DirEntry(c)} \cup (IF decoded THEN {RetypedEntry(c)} ELSE {})
          EntriesWith(m) ==
              (IF m = 0 THEN LeafEntries ELSE {})
                  \cup UNION {Owners(c) : c \in Levels(DiffNames, m, decoded)}
      IN  Levels(rest, n, decoded)
              \cup UNION {{Put(l, x, e) : l \in Levels(rest, n - 1 - m, decoded),
                                          e \in EntriesWith(m)} : m \in 0..(n - 1)}

TreeSet(max, decoded) == UNION {Levels(DiffNames, n, decoded) : n \in 0..max}

Dashes(n) == [i \in 1..n |-> DASH]
FromPathHeader == <<70, 114, 111, 109, 32, 80, 97, 116, 104, 58, 32>> \o Dashes(40) \o <<NL>>
FromFileHeader == <<70, 114, 111, 109, 32, 70, 105, 108, 101, 58, 32>> \o Dashes(40) \o <<NL>>

\* DirLevel::RemoveCommon(&root, &from_file) in main's try block
CallRemoveCommon ==
    /\ pc = "compare"
    /\ LET r == RemoveCommon(root, from_file, <<>>)
       IN  /\ root' = r.dir1
           /\ from_file' = r.dir2
           /\ pc' = IF r.thrown THEN "remove_failed" ELSE "pruned"
           /\ err' = IF r.thrown
                     THEN [what |-> "missing directory pointer", line |-> 0,
                           text |-> r.text]
                     ELSE err
    /\ in1' = root
    /\ in2' = from_file
    /\ UNCHANGED <<stack, openFds, wroot, out, input, droot, cur_line, line_num, prev1>>

\* the two headers and the two Traverse calls
ComparerTraverse ==
    /\ pc = "pruned"
    /\ out' = <<FromPathHeader>> \o Traverse(root, <<>>)
                  \o <<FromFileHeader>> \o Traverse(from_file, <<>>)
    /\ pc' = "done"
    /\ UNCHANGED <<stack, openFds, wroot, input, droot, cur_line, line_num, err, root,
                   from_file, in1, in2, prev1>>

InitDiff ==
    /\ pc = "compare"
    /\ stack = <<>>
    /\ openFds = {}
    /\ wroot = EmptyLevel
    /\ out = <<>>
    /\ input = <<>>
    /\ droot = EmptyLevel
    /\ cur_line = <<>>
    /\ line_num = 0
    /\ err = NoErr
    /\ root \in TreeSet(MaxPathEntries, FALSE)
    /\ from_file \in TreeSet(MaxFileEntries, TRUE)
    /\ in1 = EmptyLevel
    /\ in2 = EmptyLevel
    /\ prev1 = [root |-> PathFactoryRoot, from_file |-> FileFactoryRoot]

NextDiff == CallRemoveCommon \/ ComparerTraverse

SpecDiff == InitDiff /\ [][NextDiff]_vars

-----------------------------------------------------------------------------
(* Claims checked on SpecDiff                                              *)

RECURSIVE PathsOf(_)
\* the paths (as sequences of names) of all entries a tree holds
PathsOf(level) ==
    {<<n>> : n \in DOMAIN level}
        \cup UNION {{<<n>> \o p : p \in PathsOf(level[n].dir[1])} :
                        n \in {k \in DOMAIN level : level[k].dir # <<>>}}

Front(p) == SubSeq(p, 1, Len(p) - 1)

\* the entry a path names
EntryAt(level, p) == LevelAt(level, Front(p))[p[Len(p)]]

\* the proper ancestors of p are Directory entries in both inputs
Matched(p) == IsDirChain(in1, Front(p)) /\ IsDirChain(in2, Front(p))

\* same non-directory kind, equal size, equal mtime
SameFile(e1, e2) ==
    /\ e1.type = e2.type
    /\ e1.type # DT_DIR
    /\ e1.size = e2.size
    /\ e1.tv_sec = e2.tv_sec
    /\ e1.tv_nsec = e2.tv_nsec

SameFields(e1, e2) ==
    /\ e1.type = e2.type
    /\ e1.size = e2.size
    /\ e1.tv_sec = e2.tv_sec
    /\ e1.tv_nsec = e2.tv_nsec
    /\ (e1.dir = <<>>) <=> (e2.dir = <<>>)

\* paths present in both inputs under Directory ancestors on both sides
MatchedPaths == {p \in PathsOf(in1) \cap PathsOf(in2) : Matched(p)}

\* C2: for input trees that satisfy the data-model invariants, after
\* RemoveCommon returns every matched path whose two entries were the same
\* non-directory kind with equal size and mtime is absent from both trees,
\* every matched directory whose subtrees were equal is absent from both
\* trees, and two equal inputs both end empty.
RemoveCommonComplete ==
    (pc = "pruned" /\ ChildIffDir(in1) /\ ChildIffDir(in2)) =>
        /\ \A p \in MatchedPaths :
              SameFile(EntryAt(in1, p), EntryAt(in2, p))
                  => p \notin PathsOf(root) /\ p \notin PathsOf(from_file)
        /\ \A p \in MatchedPaths :
              (/\ BothDirectories(EntryAt(in1, p), EntryAt(in2, p))
               /\ EntryAt(in1, p).dir = EntryAt(in2, p).dir)
                  => p \notin PathsOf(root) /\ p \notin PathsOf(from_file)
        /\ in1 = in2 => root = EmptyLevel /\ from_file = EmptyLevel

\* C2 witness: two equal trees with a directory that holds an entry have been
\* pruned to nothing
RemoveCommonCompleteWitness ==
    /\ pc = "pruned"
    /\ in1 = in2
    /\ ChildIffDir(in1)
    /\ \E p \in PathsOf(in1) : Len(p) = 2
    /\ root = EmptyLevel
    /\ from_file = EmptyLevel

\* what C3 says of one side: nothing is added; an entry that is gone was
\* matched with an entry of the other side that is the same file, or both were
\* directories; an entry that is still there has its fields
SoundFor(before, other, after) ==
    /\ PathsOf(after) \subseteq PathsOf(before)
    /\ \A p \in PathsOf(before) :
          IF p \in PathsOf(after)
          THEN SameFields(EntryAt(after, p), EntryAt(before, p))
          ELSE /\ Matched(p)
               /\ p \in PathsOf(other)
               /\ \/ SameFile(EntryAt(before, p), EntryAt(other, p))
                  \/ BothDirectories(EntryAt(before, p), EntryAt(other, p))

\* C3 (as claimed): every entry RemoveCommon erases from either tree is a
\* non-directory entry matched with an entry of equal kind, size and mtime, or
\* a Directory matched with a Directory whose own child is empty after the
\* recursive call (all it held was erased on the same grounds); every other
\* entry stays in its tree with its fields unchanged.
RemoveCommonSound ==
    pc = "pruned" => SoundFor(in1, in2, root) /\ SoundFor(in2, in1, from_file)

\* the same for inputs in which only directories own a child
RemoveCommonSoundOnWellFormed ==
    (pc = "pruned" /\ ChildIffDir(in1) /\ ChildIffDir(in2)) =>
        SoundFor(in1, in2, root) /\ SoundFor(in2, in1, from_file)

RECURSIVE Covered(_, _)
\* every entry of l1 has in l2 a counterpart it is erased with: RemoveCommon
\* on (l1, l2), or on (l2, l1), leaves l1 empty
Covered(l1, l2) ==
    \A n \in DOMAIN l1 :
        /\ n \in DOMAIN l2
        /\ IF BothDirectories(l1[n], l2[n])
           THEN Covered(l1[n].dir[1], l2[n].dir[1])
           ELSE IdenticalEntries(l1[n], l2[n])

\* t1 = {a/: {a (100 bytes)}} and t2 = {a/: {a (100 bytes), b (1 byte)}}
ExampleFile == [type |-> DT_REG, size |-> 100, tv_sec |-> 0, tv_nsec |-> 0, dir |-> <<>>]
ExampleOther == [type |-> DT_REG, size |-> 1, tv_sec |-> 0, tv_nsec |-> 0, dir |-> <<>>]
ExampleTree1 == Put(EmptyLevel, <<97>>, DirEntry(Put(EmptyLevel, <<97>>, ExampleFile)))
ExampleTree2 ==
    Put(EmptyLevel, <<97>>,
        DirEntry(Put(Put(EmptyLevel, <<97>>, ExampleFile), <<98>>, ExampleOther)))
ExampleLeft == Put(EmptyLevel, <<97>>, DirEntry(Put(EmptyLevel, <<98>>, ExampleOther)))

\* C4: a name that is a Directory on both sides (under Directory ancestors) is
\* gone from t1 exactly when the recursion emptied t1's child, and gone from t2
\* exactly when it emptied t2's child, each whatever happened on the other
\* side; a directory that stays holds an entry. For the two example trees t1
\* ends empty and t2 ends as {a/: {b}}.
IndependentPruning ==
    pc = "pruned" =>
        /\ \A p \in MatchedPaths :
              BothDirectories(EntryAt(in1, p), EntryAt(in2, p)) =>
                  LET c1 == EntryAt(in1, p).dir[1]
                      c2 == EntryAt(in2, p).dir[1]
                  IN  /\ p \notin PathsOf(root) <=> Covered(c1, c2)
                      /\ p \notin PathsOf(from_file) <=> Covered(c2, c1)
                      /\ p \in PathsOf(root) => EntryAt(root, p).dir[1] # EmptyLevel
                      /\ p \in PathsOf(from_file)
                            => EntryAt(from_file, p).dir[1] # EmptyLevel
        /\ (in1 = ExampleTree1 /\ in2 = ExampleTree2)
              => root = EmptyLevel /\ from_file = ExampleLeft

\* C4 witness: the example trees have been pruned, one directory is gone and
\* the other is still there
IndependentPruningWitness ==
    /\ pc = "pruned"
    /\ in1 = ExampleTree1
    /\ in2 = ExampleTree2
    /\ << <<97>> >> \notin PathsOf(root)
    /\ << <<97>> >> \in PathsOf(from_file)

\* C15: for two trees that satisfy the data-model invariants, RemoveCommon
\* called with the arguments in the other order leaves each tree in the same
\* final state as the call main makes.
RemoveCommonSymmetric ==
    (pc = "pruned" /\ ChildIffDir(in1) /\ ChildIffDir(in2)) =>
        LET r == RemoveCommon(in2, in1, <<>>)
        IN  /\ ~r.thrown
            /\ r.dir2 = root
            /\ r.dir1 = from_file

\* C15 witness: the second tree has a name the first has not, both have a
\* directory of the same name, entries were erased and entries are left
RemoveCommonSymmetricWitness ==
    /\ pc = "pruned"
    /\ ChildIffDir(in1) /\ ChildIffDir(in2)
    /\ DOMAIN in2 \ DOMAIN in1 # {}
    /\ \E n \in DOMAIN in1 \cap DOMAIN in2 :
          /\ BothDirectories(in1[n], in2[n])
          /\ in1[n].dir[1] # EmptyLevel
    /\ root # in1
    /\ from_file # in2
    /\ from_file # EmptyLevel

\* C16: for two trees that satisfy the data-model invariants, RemoveCommon on
\* the pruned pair removes nothing more from either tree.
RemoveCommonIdempotent ==
    (pc = "pruned" /\ ChildIffDir(in1) /\ ChildIffDir(in2)) =>
        LET r == RemoveCommon(root, from_file, <<>>)
        IN  /\ ~r.thrown
            /\ r.dir1 = root
            /\ r.dir2 = from_file

\* C16 witness: the first run erased entries from both trees and left a name
\* that both trees still hold, which a second run visits again
RemoveCommonIdempotentWitness ==
    /\ pc = "pruned"
    /\ ChildIffDir(in1) /\ ChildIffDir(in2)
    /\ CountEntries(root) < CountEntries(in1)
    /\ CountEntries(from_file) < CountEntries(in2)
    /\ DOMAIN root \cap DOMAIN from_file # {}

-----------------------------------------------------------------------------
(* More claims checked on SpecDecode                                       *)

\* C13 (as claimed): a DT_DIR line whose leaf name is already a directory that
\* owns a child level keeps that child level and all entries below it.
DirLineKeepsChild ==
    [][(/\ pc = "decode" /\ pc' = "decode" /\ line_num' = line_num + 1
        /\ LeafPresent(droot, cur_line')
        /\ LeafEntry(droot, cur_line').type = DT_DIR
        /\ LeafEntry(droot, cur_line').dir # <<>>
        /\ LeafEntry(droot', cur_line').type = DT_DIR)
          => LeafEntry(droot', cur_line').dir = LeafEntry(droot, cur_line').dir]_vars

-----------------------------------------------------------------------------
(* file-lister.cpp: its own copy of DirLevel::CreateFromTraverseFile       *)

\* ofs when `while (ofs-- > 0)` ends: the 0-based index of the fourth ' '
\* counted from the end of the line, or, when the loop runs out, 0 - 1 in
\* size_t. SIZE_MAX is written -1: the code only tests it against 0 and adds 1.
ListerScanBack(line) ==
    LET sp == {i \in 1..Len(line) : line[i] = SP}
    IN  IF Cardinality(sp) < 4 THEN -1
        ELSE (CHOOSE i \in sp : Cardinality({j \in sp : j > i}) = 3) - 1

\* if (ofs == 0)
ListerScanFailed(ofs) == ofs = 0

\* "Create directory entry": a DT_DIR entry of size 0 with a new child level
CreateDirectory(entries, component) ==
    [emplace(entries, component) EXCEPT ![component].type = DT_DIR,
                                        ![component].size = 0,
                                        ![component].dir = <<EmptyLevel>>]

RECURSIVE ListerNavigate(_, _, _)
\* "Navigate to the appropriate directory level, creating as needed": the root
\* with the directories created, and current_dir as the names leading to it;
\* null when current_dir has become it->second.dir.get() of an entry without
\* a child
ListerNavigate(root_level, comps, current_dir) ==
    IF comps = <<>> THEN [root |-> root_level, dir |-> current_dir, null |-> FALSE]
    ELSE IF Head(comps) = <<>> THEN ListerNavigate(root_level, Tail(comps), current_dir)
    ELSE
      LET entries == LevelAt(root_level, current_dir)
          component == Head(comps)
      IN  IF component \notin DOMAIN entries
          THEN ListerNavigate(
                   ReplaceLevel(root_level, current_dir,
                                CreateDirectory(entries, component)),
                   Tail(comps), Append(current_dir, component))
          ELSE IF entries[component].dir = <<>>
               THEN [root |-> root_level, dir |-> current_dir, null |-> TRUE]
               ELSE ListerNavigate(root_level, Tail(comps),
                                   Append(current_dir, component))

\* the loop body from the sscanf on: rest holds the final fields, fullpath the
\* bytes std::string fullpath(line) takes
ListerParseFields(root_level, fullpath, rest, n) ==
    LET f == sscanf(rest)
    IN  IF Len(f) # 9
        THEN [kind |-> "throw", root |-> root_level,
              err |-> [what |-> "Parse error: expected 9 fields", line |-> n,
                       text |-> Dec(Len(f))]]
        ELSE
        LET tm_time == [tm_year |-> f[3] - 1900, tm_mon |-> f[4] - 1,
                        tm_mday |-> f[5], tm_hour |-> f[6], tm_min |-> f[7],
                        tm_sec |-> f[8]]
            last_slash == LastSlash(fullpath)
            dirname == SubSeq(fullpath, 1, last_slash)
            file_name == SubSeq(fullpath, last_slash + 1, Len(fullpath))
            nav == ListerNavigate(root_level, Components(dirname), <<>>)
        IN  IF nav.null
            THEN [kind |-> "crash", root |-> nav.root,
                  err |-> [what |-> "null current_dir", line |-> n, text |-> <<>>]]
            ELSE [kind |-> "ok",
                  root |-> ReplaceLevel(nav.root, nav.dir,
                              InsertLeaf(LevelAt(nav.root, nav.dir), file_name,
                                         f[1], f[2], timegm(tm_time), f[9])),
                  err |-> NoErr]

\* The body of the fgets loop for one line, n being line_num after line_num++:
\* the outcomes the build can produce. With fewer than four spaces the store
\* line[ofs++] = '\0' goes to the byte before the buffer: the run is stopped
\* there, or goes on with ofs = 0 and the whole line as path and as fields.
ListerParseLine(root_level, line, n) ==
    LET ofs == ListerScanBack(line)
    IN  IF ListerScanFailed(ofs)
        THEN {[kind |-> "throw", root |-> root_level,
               err |-> [what |-> "Parse error: reading final four fields",
                        line |-> n, text |-> <<>>]]}
        ELSE IF ofs = -1
        THEN {[kind |-> "crash", root |-> root_level,
               err |-> [what |-> "store before the line buffer", line |-> n,
                        text |-> <<>>]],
              ListerParseFields(root_level, line, line, n)}
        ELSE {ListerParseFields(root_level, SubSeq(line, 1, ofs),
                                SubSeq(line, ofs + 2, Len(line)), n)}

ListerDecodeLine(l) ==
    \E o \in ListerParseLine(droot, l, line_num + 1) :
        /\ cur_line' = l
        /\ line_num' = line_num + 1
        /\ droot' = o.root
        /\ err' = o.err
        /\ pc' = CASE o.kind = "ok" -> "decode"
                   [] o.kind = "throw" -> "decode_failed"
                   [] o.kind = "crash" -> "decode_crashed"
        /\ UNCHANGED <<stack, openFds, wroot, out, root, from_file, in1, in2, prev1>>

\* fgets reads one more line of the input file
ListerDecodeAnyLine ==
    /\ pc = "decode" /\ line_num < MaxLines
    /\ \E l \in LineSet : ListerDecodeLine(l)
    /\ UNCHANGED input

InitListerDecode == InitDecode

NextListerDecode == ListerDecodeAnyLine \/ DecodeEof

SpecListerDecode == InitListerDecode /\ [][NextListerDecode]_vars

-----------------------------------------------------------------------------
(* Claims checked on SpecDecode and SpecListerDecode                       *)

SpaceCount(ln) == Cardinality({i \in 1..Len(ln) : ln[i] = SP})

\* C12 (as claimed): a line with fewer than four spaces raises the parse error
\* of the backward scan with the line's 1-based number, nothing being parsed
\* or inserted; a line with four or more is split at the fourth space from
\* its end: it does not raise that error, and when it is decoded the entry
\* inserted is the one named by the bytes before that space.
TrailingFieldCheck ==
    [][(pc = "decode" /\ line_num' = line_num + 1) =>
          /\ SpaceCount(cur_line') < 4 =>
                /\ pc' = "decode_failed"
                /\ err' = [what |-> "Parse error: reading final four fields",
                           line |-> line_num + 1, text |-> <<>>]
                /\ droot' = droot
          /\ SpaceCount(cur_line') >= 4 =>
                /\ err'.what # "Parse error: reading final four fields"
                /\ pc' = "decode" => LeafPresent(droot', cur_line')]_vars

\* the strict copy raised the scan's parse error on line 2, a line of three
\* spaces, and decoded a line whose path holds a space
TrailingFieldCheckWitness ==
    /\ pc = "decode_failed"
    /\ err = [what |-> "Parse error: reading final four fields", line |-> 2,
              text |-> <<>>]
    /\ SpaceCount(cur_line) = 3
    /\ <<97, SP, 98>> \in DOMAIN droot

-----------------------------------------------------------------------------
(* file-comparer's main from start to end: CreateFromPath on the           *)
(* directory, CreateFromTraverseFile on the file, RemoveCommon, Traverse   *)

\* the lines the input file is made of here: "a" as a directory, "a/a" as a
\* file, and "a\n" (no fields)
ComparerLines ==
    {FormatLine(<<>>, <<97>>, [type |-> DT_DIR, size |-> 0, tv_sec |-> 0, tv_nsec |-> 0]),
     FormatLine(<<>>, <<97, SLASH, 97>>,
                [type |-> DT_REG, size |-> 5, tv_sec |-> 0, tv_nsec |-> 0]),
     <<97, NL>>}

\* root has been assigned; CreateFromTraverseFile's fopen returns NULL
ComparerOpenFails ==
    /\ pc = "walked"
    /\ pc' = "decode_failed"
    /\ err' = WalkErr("Cannot open", <<>>)
    /\ UNCHANGED <<stack, openFds, wroot, out, input, droot, cur_line, line_num, root,
                   from_file, in1, in2, prev1>>

\* root has been assigned; CreateFromTraverseFile opens the input file
ComparerOpenFile ==
    /\ pc = "walked"
    /\ droot' = EmptyLevel
    /\ cur_line' = <<>>
    /\ line_num' = 0
    /\ pc' = "decode"
    /\ UNCHANGED <<stack, openFds, wroot, out, input, err, root, from_file, in1, in2,
                   prev1>>

\* getline reads one more line of the input file
ComparerDecodeLine ==
    /\ pc = "decode" /\ line_num < MaxLines
    /\ \E l \in ComparerLines : DecodeLine(l)
    /\ UNCHANGED input

\* both trees are assigned: main leaves the first try block
TryBlockEnds ==
    /\ pc = "decoded"
    /\ pc' = "compare"
    /\ UNCHANGED <<stack, openFds, wroot, out, input, droot, cur_line, line_num, err,
                   root, from_file, in1, in2, prev1>>

InitCompare == InitRT

NextCompare ==
    \/ AccessFails
    \/ OpenFails
    \/ OpenRoot
    \/ FdopendirOk
    \/ FdopendirFails
    \/ ReaddirDot
    \/ FstatatFails
    \/ ReaddirFile
    \/ ReaddirDir
    \/ OpenatFails
    \/ ReaddirEnd
    \/ Unwind
    \/ WalkCaught
    \/ CreateFromPathReturns
    \/ ComparerOpenFails
    \/ ComparerOpenFile
    \/ ComparerDecodeLine
    \/ DecodeEof
    \/ TryBlockEnds
    \/ CallRemoveCommon
    \/ ComparerTraverse

SpecCompare == InitCompare /\ [][NextCompare]_vars

-----------------------------------------------------------------------------
(* Claims checked on SpecCompare                                           *)

FailedPcs == {"walk_failed", "decode_failed", "remove_failed"}

\* C11: when CreateFromPath fails (at any depth) or CreateFromTraverseFile
\* fails (at any line), main's variable for that tree stays empty (the part
\* built before the failure is not handed over), nothing follows the failure
\* (no RemoveCommon, no Traverse), and a tree variable is assigned only when
\* its construction has returned or by RemoveCommon.
AllOrNothing ==
    [][/\ pc \notin FailedPcs
       /\ pc' = "walk_failed" =>
             /\ root' = EmptyLevel /\ from_file' = EmptyLevel
             /\ out' = <<>> /\ in1' = EmptyLevel /\ in2' = EmptyLevel
       /\ pc' = "decode_failed" =>
             /\ from_file' = EmptyLevel
             /\ out' = <<>> /\ in1' = EmptyLevel /\ in2' = EmptyLevel
       /\ root' # root => pc' = "walked" \/ pc = "compare"
       /\ from_file' # from_file => pc' = "decoded" \/ pc = "compare"]_vars

\* C11 witness: CreateFromTraverseFile failed on its second line, after it
\* had inserted an entry; from_file is empty and nothing was printed
AllOrNothingWitness ==
    /\ pc = "decode_failed"
    /\ line_num = 2
    /\ droot # EmptyLevel
    /\ root # EmptyLevel
    /\ from_file = EmptyLevel
    /\ out = <<>>

\* the names leading to each level below the root of a tree
LevelPaths(level) == {p \in PathsOf(level) : EntryAt(level, p).dir # <<>>}

\* what FullPath can append when called on the level at path of a tree whose
\* depth-1 levels have prev_ = designee: the walk up reads the prev_ member
\* of designee, which is a read of a dead object when designee is not live
HeldFullPath(designee, path) ==
    IF path = <<>> \/ designee \in LiveObjects
    THEN {FullPath(path)}
    ELSE {FullPath(path), <<"undefined">>}

\* C14 (as claimed): once main holds a tree, the parent reference of its
\* depth-1 levels designates main's own variable, a live object, and FullPath
\* on any level yields exactly the ancestors' names, each followed by '/'.
ParentsValid ==
    /\ (prev1.root # "none" /\ LevelPaths(root) # {}) =>
          /\ prev1.root = MainRoot
          /\ prev1.root \in LiveObjects
          /\ \A p \in LevelPaths(root) : HeldFullPath(prev1.root, p) = {FullPath(p)}
    /\ (prev1.from_file # "none" /\ LevelPaths(from_file) # {}) =>
          /\ prev1.from_file = MainFromFile
          /\ prev1.from_file \in LiveObjects
          /\ \A p \in LevelPaths(from_file) :
                HeldFullPath(prev1.from_file, p) = {FullPath(p)}

====
